---- MODULE Spec2Model ----
(***************************************************************************)
(* Model of the roleplay action catalog (roleplay/actions.py) and of the   *)
(* member finder (modhelper/main.py).                                      *)
(*                                                                         *)
(* Python values are tagged records: the field t is the Python type.  An   *)
(* exception leaving a call is the value Raise(<exception class>).         *)
(***************************************************************************)
EXTENDS Integers, Sequences, FiniteSets, TLC

VARIABLES dir, pc, attrs, ret, reloads, cmd

vars == <<dir, pc, attrs, ret, reloads, cmd>>

(***************************************************************************)
(* Bounds of the model.                                                    *)
(***************************************************************************)
MaxFiles == 2
MaxReloads == 1
MaxMembers == 2

(***************************************************************************)
(* Python values.                                                          *)
(***************************************************************************)
None == [t |-> "None"]
Absent == [t |-> "absent"]
Str(s) == [t |-> "str", v |-> s]
List(q) == [t |-> "list", v |-> q]
Dict(f) == [t |-> "dict", v |-> f]
Bool(b) == [t |-> "bool", v |-> b]
Raise(e) == [t |-> "raise", exc |-> e]
Logger == [t |-> "Logger"]
Method(m) == [t |-> "method", v |-> m]

EmptyMap == [k \in {} |-> None]
Opt(k, v) == IF v.t = "absent" THEN EmptyMap ELSE (k :> v)
Arg(kw, k, default) == IF k \in DOMAIN kw THEN kw[k] ELSE default

(***************************************************************************)
(* class Denial: message is required, roles defaults to [] and a lone      *)
(* string is wrapped.                                                      *)
(***************************************************************************)
Denial(kw) ==
    IF ~(DOMAIN kw \subseteq {"message", "roles"}) THEN Raise("TypeError")
    ELSE IF "message" \notin DOMAIN kw THEN Raise("TypeError")
    ELSE LET roles == Arg(kw, "roles", List(<<>>))
         IN [t |-> "Denial", message |-> kw["message"],
             roles |-> IF roles.t = "str" THEN List(<<roles.v>>) ELSE roles]

(***************************************************************************)
(* class Consent: four required fields, nothing else.                      *)
(***************************************************************************)
ConsentFields == {"active", "passive", "owner_active", "owner_passive"}

Consent(kw) ==
    IF DOMAIN kw # ConsentFields THEN Raise("TypeError")
    ELSE [t |-> "Consent", active |-> kw["active"], passive |-> kw["passive"],
          owner_active |-> kw["owner_active"],
          owner_passive |-> kw["owner_passive"]]

(***************************************************************************)
(* Action.__post_init__                                                    *)
(***************************************************************************)
KeepStr(x) == x

WrapStr(x) == IF x.t = "str" THEN List(<<x.v>>) ELSE x

post_init_consent(c) ==
    IF c.t = "dict"
    THEN LET r == Consent(c.v) IN IF r.t = "raise" THEN c ELSE r
    ELSE c

post_init_denial(d) ==
    IF d.t = "dict"
    THEN LET r == Denial(d.v) IN IF r.t = "raise" THEN d ELSE r
    ELSE d

post_init(self) ==
    [t |-> "Action",
     name |-> self.name,
     description |->
         IF self.description.t = "None"
         THEN Str("{invoker_member} is " \o self.name \o "ing" \o " {target_member}.")
         ELSE self.description,
     help |-> IF self.help.t = "None"
              THEN Str(self.name \o "s a member.")
              ELSE self.help,
     aliases |-> WrapStr(self.aliases),
     credits |-> self.credits,
     spoiler |-> self.spoiler,
     images |-> WrapStr(self.images),
     consent |-> post_init_consent(self.consent),
     denial |-> post_init_denial(self.denial)]

(***************************************************************************)
(* Action(name=action_name, **data): the dataclass constructor.  data must *)
(* be a mapping, must not repeat name, may only use the declared fields,   *)
(* and must give the two fields that have no default.                      *)
(***************************************************************************)
ActionFields == {"description", "help", "aliases", "credits", "spoiler",
                 "images", "consent", "denial"}

Action(name, data) ==
    IF data.t # "dict" THEN Raise("TypeError")
    ELSE LET kw == data.v IN
         IF "name" \in DOMAIN kw THEN Raise("TypeError")
         ELSE IF ~(DOMAIN kw \subseteq ActionFields) THEN Raise("TypeError")
         ELSE IF ~({"description", "help"} \subseteq DOMAIN kw)
              THEN Raise("TypeError")
         ELSE post_init([name |-> name,
                         description |-> kw["description"],
                         help |-> kw["help"],
                         aliases |-> Arg(kw, "aliases", List(<<>>)),
                         credits |-> Arg(kw, "credits", None),
                         spoiler |-> Arg(kw, "spoiler", Bool(FALSE)),
                         images |-> Arg(kw, "images", List(<<>>)),
                         consent |-> Arg(kw, "consent", None),
                         denial |-> Arg(kw, "denial", None)])

(***************************************************************************)
(* The manager object: attrs is its instance dictionary.  An attribute     *)
(* that is not in the instance dictionary is looked up on the class, where *)
(* load, load_all, get and list are methods.                               *)
(***************************************************************************)
GetAttr(self, a) == IF a \in DOMAIN self THEN self[a] ELSE Method(a)

SetAttr(self, a, v) ==
    [x \in DOMAIN self \cup {a} |-> IF x = a THEN v ELSE self[x]]

(***************************************************************************)
(* yaml.safe_load: a document that is not valid YAML raises, any other     *)
(* document decodes to its value (a mapping, a sequence, a scalar, null).  *)
(***************************************************************************)
safe_load(text) == IF text.t = "invalid" THEN Raise("YAMLError") ELSE text

(***************************************************************************)
(* ActionManager.load                                                      *)
(***************************************************************************)
load(self, action_name, text) ==
    LET data == safe_load(text) IN
    IF data.t = "raise"
    THEN IF GetAttr(self, "logger").t = "Logger" THEN None
         ELSE Raise("AttributeError")
    ELSE Action(action_name, data)

(***************************************************************************)
(* ActionManager.load_all: the two globs are chained, *.yaml first.        *)
(***************************************************************************)
IsYaml(f) == f.ext = "yaml"

IsYml(f) == f.ext = "yml"

yaml_files(d) == SelectSeq(d, IsYaml) \o SelectSeq(d, IsYml)

RECURSIVE load_all_from(_, _, _)
load_all_from(self, files, i) ==
    IF i > Len(files) THEN [self |-> self, exc |-> None]
    ELSE IF GetAttr(self, "load").t # "method"
         THEN [self |-> self, exc |-> Raise("TypeError")]
    ELSE LET action_name == files[i].stem
             action == load(self, action_name, files[i].text)
         IN IF action.t = "raise" THEN [self |-> self, exc |-> action]
            ELSE IF action.t = "None" THEN load_all_from(self, files, i + 1)
            ELSE LET actions == GetAttr(self, "actions") IN
                 IF actions.t # "list"
                 THEN [self |-> self, exc |-> Raise("AttributeError")]
                 ELSE load_all_from(
                          SetAttr(SetAttr(self, "actions",
                                          List(Append(actions.v, action))),
                                  action_name, action),
                          files, i + 1)

load_all(self, d) == load_all_from(self, yaml_files(d), 1)

(***************************************************************************)
(* ActionManager.get                                                       *)
(***************************************************************************)
get(self, action_name) ==
    LET actions == GetAttr(self, "actions") IN
    IF actions.t # "list" THEN Raise("TypeError")
    ELSE LET hits == {i \in 1..Len(actions.v) : actions.v[i].name = action_name}
         IN IF hits # {}
            THEN actions.v[CHOOSE i \in hits : \A j \in hits : i <= j]
            ELSE IF GetAttr(self, "logger").t = "Logger" THEN None
            ELSE Raise("AttributeError")

(***************************************************************************)
(* str comparison on the names the model uses: code point order.           *)
(***************************************************************************)
CodePointOrder ==
    <<"Hug", "actions", "get", "hug", "list", "load", "load_all", "logger",
      "nonexistent", "wave">>

Rank(s) == CHOOSE i \in 1..Len(CodePointOrder) : CodePointOrder[i] = s

StrLess(a, b) == Rank(a) < Rank(b)

(***************************************************************************)
(* ActionManager.list                                                      *)
(***************************************************************************)
list(self) ==
    LET actions == GetAttr(self, "actions") IN
    IF actions.t # "list" THEN Raise("TypeError")
    ELSE LET action_names == [i \in 1..Len(actions.v) |-> actions.v[i].name]
         IN List(SortSeq(action_names, StrLess))

(***************************************************************************)
(* A call manager.m(...): the attribute must still be the method.          *)
(***************************************************************************)
Call(self, m, result) ==
    IF GetAttr(self, m).t = "method" THEN result ELSE Raise("TypeError")

(***************************************************************************)
(* The definition files the directory may hold.  A file is its base name,  *)
(* its extension and the document it contains.                             *)
(***************************************************************************)
Plain == ("description" :> Str("D")) @@ ("help" :> Str("H"))

TextValues == {Absent, None, Str("text")}

SeqValues == {Absent, None, Str("one"), List(<<"one", "two">>)}

FullConsent ==
    ("active" :> Str("A")) @@ ("passive" :> Str("B")) @@
    ("owner_active" :> Str("C")) @@ ("owner_passive" :> Str("D"))

ConsentValues == {Absent, None, Dict(FullConsent), Dict("active" :> Str("A"))}

DenialValues ==
    {Absent, Dict(("message" :> Str("M")) @@ ("roles" :> Str("r"))),
     Dict("roles" :> Str("r"))}

Mappings ==
    {Opt("description", d) @@ Opt("help", h) : d \in TextValues, h \in TextValues}
    \cup {Plain @@ Opt("aliases", a) @@ Opt("images", i) :
              a \in SeqValues, i \in SeqValues}
    \cup {Plain @@ Opt("consent", c) @@ Opt("denial", d) :
              c \in ConsentValues, d \in DenialValues}
    \cup {Plain @@ ("name" :> Str("other")), Plain @@ ("colour" :> Str("red"))}

Documents ==
    {Dict(m) : m \in Mappings} \cup {List(<<"x">>), None, [t |-> "invalid"]}

Reserved == {"actions", "get", "list", "load", "load_all", "logger"}

Stems == {"hug", "wave"} \cup Reserved

DocumentsOf(stem, ext) ==
    IF stem = "hug" /\ ext = "yml" THEN Documents
    ELSE IF stem = "hug" THEN {Dict(Plain)}
    ELSE IF ext = "yaml" THEN {}
    ELSE IF stem = "wave"
         THEN {Dict(Plain), Dict("description" :> Str("text")), [t |-> "invalid"]}
    ELSE {Dict(Plain)}

Files ==
    UNION {{[stem |-> s, ext |-> e, text |-> x] : x \in DocumentsOf(s, e)} :
               s \in Stems, e \in {"yaml", "yml"}}

Path(f) == <<f.stem, f.ext>>

\* A directory holds each path once; its order is the order of enumeration.
RECURSIVE DirsOfLen(_)
DirsOfLen(n) ==
    IF n = 0 THEN {<<>>}
    ELSE UNION {{Append(d, f) :
                     f \in {g \in Files :
                                \A i \in 1..Len(d) : Path(d[i]) # Path(g)}} :
                    d \in DirsOfLen(n - 1)}

Dirs == UNION {DirsOfLen(n) : n \in 0..MaxFiles}

QueryNames == Stems \cup {"Hug", "nonexistent"}

(***************************************************************************)
(* The catalog as a state machine.                                         *)
(***************************************************************************)
NoCmd == [t |-> "idle"]

Init ==
    /\ dir \in Dirs
    /\ pc = "new"
    /\ attrs = EmptyMap
    /\ ret = [op |-> "none"]
    /\ reloads = 0
    /\ cmd = NoCmd

\* manager = ActionManager(): __init__ sets logger and actions, then scans.
Construct ==
    /\ pc = "new"
    /\ LET self == ("logger" :> Logger) @@ ("actions" :> List(<<>>))
           r == load_all(self, dir)
       IN /\ attrs' = r.self
          /\ pc' = IF r.exc.t = "raise" THEN "failed" ELSE "ready"
          /\ ret' = [op |-> "init", val |-> r.exc]
    /\ UNCHANGED <<dir, reloads, cmd>>

\* manager.load_all() again, over the same directory.
Reload ==
    /\ pc = "ready"
    /\ reloads < MaxReloads
    /\ reloads' = reloads + 1
    /\ IF GetAttr(attrs, "load_all").t = "method"
       THEN LET r == load_all(attrs, dir)
            IN /\ attrs' = r.self
               /\ ret' = [op |-> "load_all", val |-> r.exc]
       ELSE /\ attrs' = attrs
            /\ ret' = [op |-> "load_all", val |-> Raise("TypeError")]
    /\ UNCHANGED <<dir, pc, cmd>>

\* manager.load(f.stem, file_path=<path of f>)
Load(f) ==
    /\ pc = "ready"
    /\ ret' = [op |-> "load", arg |-> f,
               val |-> Call(attrs, "load", load(attrs, f.stem, f.text))]
    /\ UNCHANGED <<dir, pc, attrs, reloads, cmd>>

\* manager.get(n)
Get(n) ==
    /\ pc = "ready"
    /\ ret' = [op |-> "get", arg |-> n, val |-> Call(attrs, "get", get(attrs, n))]
    /\ UNCHANGED <<dir, pc, attrs, reloads, cmd>>

\* manager.list()
ListNames ==
    /\ pc = "ready"
    /\ ret' = [op |-> "list", val |-> Call(attrs, "list", list(attrs))]
    /\ UNCHANGED <<dir, pc, attrs, reloads, cmd>>

Next ==
    \/ Construct
    \/ Reload
    \/ \E f \in Files : Load(f)
    \/ \E n \in QueryNames : Get(n)
    \/ ListNames

Spec == Init /\ [][Next]_vars

TypeOK == pc \in {"new", "ready", "failed"}

(***************************************************************************)
(* Action construction on its own: Action(name=n, **data) for every        *)
(* decoded document.                                                       *)
(***************************************************************************)
Decoded == {x \in Documents : safe_load(x).t # "raise"}

InitAction ==
    /\ dir = <<>>
    /\ pc = "new"
    /\ attrs = EmptyMap
    /\ ret = [op |-> "none"]
    /\ reloads = 0
    /\ cmd = NoCmd

NewAction ==
    /\ \E n \in Stems, data \in Decoded :
           ret' = [op |-> "Action", name |-> n, data |-> data,
                   val |-> Action(n, data)]
    /\ UNCHANGED <<dir, pc, attrs, reloads, cmd>>

SpecAction == InitAction /\ [][NewAction]_vars

(***************************************************************************)
(* The member finder.  Names and labels are sequences of characters, so    *)
(* that formatting a label and splitting it again are computed as str      *)
(* does.                                                                   *)
(***************************************************************************)
DefaultScore == 70
DefaultResults == 5

Find(s, sep) ==
    {i \in 1..(Len(s) - Len(sep) + 1) : SubSeq(s, i, i + Len(sep) - 1) = sep}

RECURSIVE split(_, _)
split(s, sep) ==
    IF Find(s, sep) = {} THEN <<s>>
    ELSE LET i == CHOOSE k \in Find(s, sep) : \A j \in Find(s, sep) : k <= j
         IN <<SubSeq(s, 1, i - 1)>> \o split(SubSeq(s, i + Len(sep), Len(s)), sep)

RECURSIVE rstrip(_, _)
rstrip(s, ch) ==
    IF Len(s) > 0 /\ s[Len(s)] = ch THEN rstrip(SubSeq(s, 1, Len(s) - 1), ch)
    ELSE s

\* f"{display_name} ({name})"
search_target(m) == m.display_name \o <<" ", "(">> \o m.name \o <<")">>

search_targets(members) == [i \in 1..Len(members) |-> search_target(members[i])]

\* discord.utils.get(members, name=name): the first member with that name.
utils_get(members, name) ==
    LET hits == {i \in 1..Len(members) : members[i].name = name}
    IN IF hits = {} THEN None
       ELSE members[CHOOSE i \in hits : \A j \in hits : i <= j]

NoMatches(min_score) == [kind |-> "no matches", min_score |-> min_score]

SendIfEmpty(found_users, sent, min_score) ==
    IF Len(found_users) = 0 THEN Append(sent, NoMatches(min_score)) ELSE sent

RECURSIVE show_from(_, _, _, _, _)
show_from(found_users, i, min_score, members, sent) ==
    IF i > Len(found_users) THEN [sent |-> sent, exc |-> None]
    ELSE LET user == found_users[i][1]
             score == found_users[i][2]
         IN IF score < min_score
            THEN show_from(found_users, i + 1, min_score, members, sent)
            ELSE LET parts == split(user, <<" ", "(">>) IN
                 IF Len(parts) # 2 THEN [sent |-> sent, exc |-> Raise("ValueError")]
                 ELSE LET name == rstrip(parts[2], ")")
                          member == utils_get(members, name)
                      IN IF member.t # "None"
                         THEN show_from(found_users, i + 1, min_score, members,
                                  sent \o <<[kind |-> "match",
                                             display_name |-> member.display_name,
                                             name |-> member.name,
                                             score |-> score],
                                            [kind |-> "id", id |-> member.id]>>)
                         ELSE show_from(found_users, i + 1, min_score, members, sent)

show_results(found_users, min_score, members) ==
    LET r == show_from(found_users, 1, min_score, members, <<>>)
    IN IF r.exc.t = "raise" THEN r
       ELSE [sent |-> SendIfEmpty(found_users, r.sent, min_score), exc |-> None]

(***************************************************************************)
(* process.extract(name, search_targets, limit=results): every target is   *)
(* scored, the limit best are returned, best first.  The scores are the    *)
(* library's; the model lets them be any scores.                           *)
(***************************************************************************)
Scores == {40, DefaultScore, 100}

Min(a, b) == IF a < b THEN a ELSE b

extract(targets, limit) ==
    LET n == Min(limit, Len(targets))
    IN {r \in [1..n -> (1..Len(targets)) \X Scores] :
            /\ \A i, j \in 1..n : r[i][1] = r[j][1] => i = j
            /\ \A i \in 1..(n - 1) : r[i][2] >= r[i + 1][2]}

DisplayNames == {<<"A", "n">>, <<"A", " ", "(", "b">>}

UserNames == {<<"a", "n">>, <<"b">>}

RECURSIVE GuildsOfLen(_)
GuildsOfLen(n) ==
    IF n = 0 THEN {<<>>}
    ELSE {Append(g, [t |-> "Member", display_name |-> d, name |-> u, id |-> n]) :
              g \in GuildsOfLen(n - 1), d \in DisplayNames, u \in UserNames}

Guilds == UNION {GuildsOfLen(n) : n \in 0..MaxMembers}

\* The find command: one ranking, then show_results.
find ==
    /\ \E members \in Guilds, score \in {DefaultScore, 100},
          results \in {0, 1, DefaultResults} :
         \E ranked \in extract(search_targets(members), results) :
           LET targets == search_targets(members)
               found_users == [i \in 1..Len(ranked) |->
                                   <<targets[ranked[i][1]], ranked[i][2]>>]
               r == show_results(found_users, score, members)
           IN cmd' = [t |-> "done", members |-> members, min_score |-> score,
                      found_users |-> found_users, sent |-> r.sent, exc |-> r.exc]
    /\ UNCHANGED <<dir, pc, attrs, ret, reloads>>

SpecFind == InitAction /\ [][find]_vars

(***************************************************************************)
(* Vocabulary of the properties.                                           *)
(***************************************************************************)
Catalog == GetAttr(attrs, "actions")

\* No file is named after an attribute of the manager, and no base name
\* is there in both spellings of the extension.
UsualNames(d) ==
    /\ \A i \in 1..Len(d) : d[i].stem \notin Reserved
    /\ \A i, j \in 1..Len(d) : d[i].stem = d[j].stem => i = j

RecognizedKeys(f) == f.text.t = "dict" /\ DOMAIN f.text.v \subseteq ActionFields

GivesTexts(f) == f.text.t = "dict" /\ {"description", "help"} \subseteq DOMAIN f.text.v

WellFormed(f) ==
    LET data == safe_load(f.text)
    IN data.t = "dict" /\ Action(f.stem, data).t = "Action"

IsSorted(q) == \A i \in 1..(Len(q) - 1) : ~StrLess(q[i + 1], q[i])

(***************************************************************************)
(* C1: a definition file that is a mapping of recognized keys, with or     *)
(* without a name key, loads: the scan ends with get(base name) an Action  *)
(* named after the file, and load(base name, path) returns that Action.    *)
(* Stated for files that give both texts and are not named after an        *)
(* attribute of the manager, so that only the name key is in question.     *)
(***************************************************************************)
NameKeyOrNot(f) ==
    /\ f.text.t = "dict"
    /\ DOMAIN f.text.v \subseteq ActionFields \cup {"name"}
    /\ GivesTexts(f)

C1_NameKeyIgnored ==
    /\ (/\ pc # "new"
        /\ UsualNames(dir)
        /\ \A i \in 1..Len(dir) : NameKeyOrNot(dir[i]))
       => /\ pc = "ready"
          /\ \A i \in 1..Len(dir) :
                 LET a == get(attrs, dir[i].stem)
                 IN a.t = "Action" /\ a.name = dir[i].stem
    /\ (ret.op = "load" /\ UsualNames(dir) /\ NameKeyOrNot(ret.arg))
       => (ret.val.t = "Action" /\ ret.val.name = ret.arg.stem)

(***************************************************************************)
(* C2: a file that omits description and/or help still loads, and the      *)
(* missing text is the generated template; absent aliases, images, consent *)
(* and denial are [], [], null and null.                                   *)
(***************************************************************************)
C2_MissingTextDefaults ==
    (/\ pc # "new"
     /\ UsualNames(dir)
     /\ \A i \in 1..Len(dir) : RecognizedKeys(dir[i]))
    => /\ pc = "ready"
       /\ \A i \in 1..Len(dir) :
              LET kw == dir[i].text.v
                  n == dir[i].stem
                  a == get(attrs, n)
              IN /\ a.t = "Action"
                 /\ "help" \notin DOMAIN kw => a.help = Str(n \o "s a member.")
                 /\ "description" \notin DOMAIN kw =>
                        a.description =
                            Str("{invoker_member} is " \o n \o "ing {target_member}.")
                 /\ "aliases" \notin DOMAIN kw => a.aliases = List(<<>>)
                 /\ "images" \notin DOMAIN kw => a.images = List(<<>>)
                 /\ "consent" \notin DOMAIN kw => a.consent = None
                 /\ "denial" \notin DOMAIN kw => a.denial = None

(***************************************************************************)
(* C3: a consent mapping that lacks one of its four fields does not fail   *)
(* the load; the Action is in the catalog and its consent is null.         *)
(***************************************************************************)
PartialConsent(f) ==
    /\ "consent" \in DOMAIN f.text.v
    /\ f.text.v["consent"].t = "dict"
    /\ ~(ConsentFields \subseteq DOMAIN f.text.v["consent"].v)

C3_PartialConsentDropped ==
    (/\ pc # "new"
     /\ UsualNames(dir)
     /\ \A i \in 1..Len(dir) : RecognizedKeys(dir[i]) /\ GivesTexts(dir[i]))
    => /\ pc = "ready"
       /\ \A i \in 1..Len(dir) :
              PartialConsent(dir[i]) =>
                  LET a == get(attrs, dir[i].stem)
                  IN a.t = "Action" /\ a.consent = None

(***************************************************************************)
(* C4: load_all never raises and never stops early: whatever malformed     *)
(* files the directory holds, every well-formed file is in the catalog     *)
(* when the scan is over.                                                  *)
(***************************************************************************)
C4_MalformedSkipped ==
    /\ (pc # "new" /\ UsualNames(dir))
       => /\ pc = "ready"
          /\ \A i \in 1..Len(dir) :
                 WellFormed(dir[i]) =>
                     \E k \in 1..Len(Catalog.v) : Catalog.v[k].name = dir[i].stem
    /\ (ret.op = "load_all" /\ UsualNames(dir)) => ret.val = None

(***************************************************************************)
(* C5: in every state of the catalog list() returns the names of the       *)
(* loaded Actions, each as often as it is loaded, in ascending order.      *)
(***************************************************************************)
C5_ListSortedExact ==
    pc = "ready" =>
        LET r == Call(attrs, "list", list(attrs))
        IN /\ r.t = "list"
           /\ IsSorted(r.v)
           /\ Catalog.t = "list"
           /\ Len(r.v) = Len(Catalog.v)
           /\ \A n \in QueryNames :
                  Cardinality({i \in 1..Len(r.v) : r.v[i] = n})
                      = Cardinality({i \in 1..Len(Catalog.v) : Catalog.v[i].name = n})

(***************************************************************************)
(* C6: after construction aliases and images are sequences, whatever the   *)
(* file gave for them (nothing, a string, a sequence, null).               *)
(***************************************************************************)
C6_AlwaysSequences ==
    (ret.op = "Action" /\ ret.val.t = "Action")
    => (ret.val.aliases.t = "list" /\ ret.val.images.t = "list")

(***************************************************************************)
(* C6, amended: after construction an absent aliases or images is the      *)
(* empty sequence, a single string is the sequence of that one string, a   *)
(* sequence is itself, and an explicit null stays null.                    *)
(***************************************************************************)
Normalized(given, got) ==
    CASE given.t = "absent" -> got = List(<<>>)
      [] given.t = "str" -> got = List(<<given.v>>)
      [] given.t = "list" -> got = given
      [] given.t = "None" -> got = None

C6_SequencesUnlessNull ==
    (ret.op = "Action" /\ ret.val.t = "Action")
    => /\ Normalized(Arg(ret.data.v, "aliases", Absent), ret.val.aliases)
       /\ Normalized(Arg(ret.data.v, "images", Absent), ret.val.images)

C6_Witness ==
    /\ ret.op = "Action"
    /\ ret.val.t = "Action"
    /\ Arg(ret.data.v, "aliases", Absent) = Str("one")
    /\ ret.val.aliases = List(<<"one">>)
    /\ Arg(ret.data.v, "images", Absent) = None
    /\ ret.val.images = None

(***************************************************************************)
(* C7: get(n) never raises; it returns an Action named n when the catalog  *)
(* holds one and null when it holds none.                                  *)
(***************************************************************************)
C7_GetTotal ==
    pc = "ready" =>
        \A n \in QueryNames :
            LET r == Call(attrs, "get", get(attrs, n))
            IN /\ r.t # "raise"
               /\ Catalog.t = "list"
               /\ IF \E i \in 1..Len(Catalog.v) : Catalog.v[i].name = n
                  THEN r.t = "Action" /\ r.name = n
                  ELSE r = None

(***************************************************************************)
(* C8: when no ranked match reaches the minimum score, the find command    *)
(* sends exactly one "no matches" message.                                 *)
(***************************************************************************)
C8_NoMatchMessage ==
    (/\ cmd.t = "done"
     /\ \A i \in 1..Len(cmd.found_users) : cmd.found_users[i][2] < cmd.min_score)
    => (cmd.exc = None /\ cmd.sent = <<NoMatches(cmd.min_score)>>)

(***************************************************************************)
(* C9: after the first load and after every reload of the same directory   *)
(* the catalog holds one Action per loadable file and no name twice.       *)
(***************************************************************************)
C9_ReloadRebuilds ==
    (pc = "ready" /\ UsualNames(dir))
    => /\ Len(Catalog.v) = Cardinality({i \in 1..Len(dir) : WellFormed(dir[i])})
       /\ \A i, j \in 1..Len(Catalog.v) :
              Catalog.v[i].name = Catalog.v[j].name => i = j

(***************************************************************************)
(* C10: attaching each Action to the manager under the file's base name    *)
(* never replaces the manager's own attributes: actions is still the list  *)
(* of Actions, logger the logger, and load, load_all, get and list the     *)
(* methods.                                                                *)
(***************************************************************************)
C10_AttributesKept ==
    pc # "new"
    => /\ GetAttr(attrs, "actions").t = "list"
       /\ GetAttr(attrs, "logger").t = "Logger"
       /\ \A m \in {"load", "load_all", "get", "list"} :
              GetAttr(attrs, m).t = "method"

====
